---- MODULE Spec2Model ----
(***************************************************************************)
(* PicoDisp: BTC ticker with history chart for a Pico 2 W and an e-paper  *)
(* panel (src/main.py, src/display.py).                                    *)
(*                                                                         *)
(* The module models the RingBuffer, the resampler, the Europe/Berlin      *)
(* offset rule, the chart scaling and grid computation, draw_chart and the *)
(* main polling loop.  Python floats are modelled as exact rationals       *)
(* <<numerator, denominator>> in lowest terms with a positive denominator. *)
(***************************************************************************)
EXTENDS Integers, Sequences, FiniteSets, TLC

VARIABLES
    pc,             \* position of the running program / harness
    rb,             \* a RingBuffer object: [length, data]
    delivered,      \* every value handed to rb.append so far, in order
    rs_values,      \* _resample: argument values
    rs_target_len,  \* _resample: argument target_len
    rs_result,      \* _resample: returned list
    utc,            \* _berlin_offset_seconds: argument utc_tuple <<year, month, day, hour, minute>>
    last_sun_mar,   \* _berlin_offset_seconds: local last_sun_mar
    last_sun_oct,   \* _berlin_offset_seconds: local last_sun_oct
    offset,         \* _berlin_offset_seconds: returned offset in seconds
    sc_value,       \* _scale: argument value
    sc_min,         \* draw_chart: min_val
    sc_max,         \* draw_chart: max_val
    sc_height,      \* _scale: argument height
    sc_span,        \* draw_chart: span
    sc_pixel,       \* _scale: returned pixel offset
    yg_min,         \* _draw_y_grid: argument min_val
    yg_max,         \* _draw_y_grid: argument max_val
    yg_step,        \* draw_chart: y_step, the result of _nice_step
    yg_fb,          \* _draw_y_grid: the drawing calls issued to fb
    ch_history,     \* draw_chart: argument history (a RingBuffer)
    ch_span_label,  \* draw_chart: argument span_label
    ch_fb,          \* draw_chart: the drawing calls issued to fb
    ch_calls,       \* draw_chart: the helpers it called, in order
    ch_raised,      \* draw_chart: whether it raised an exception
    clock,          \* milliseconds since boot (the source of time.ticks_ms)
    rtc,            \* the RTC: seconds since midnight UTC of RtcDate
    now_ms,         \* main: now_ms
    last_swap,      \* main: last_swap
    last_price_ms,  \* main: last_price_ms
    swap_due,       \* main: swap_due of the last iteration
    price_due,      \* main: price_due of the last iteration
    is_long_view,   \* main: is_long_view
    refresh_display,\* main: refresh_display
    current_price,  \* main: current_price
    last_update,    \* main: last_update
    history_24h,    \* main: history_24h
    history_365d,   \* main: history_365d
    display_fb,     \* display.fb: the drawing calls since the last fill
    panel,          \* the frame last flushed to the e-paper panel
    led,            \* the on-board LED
    iter            \* what the last loop iteration did

vars == <<pc, rb, delivered, rs_values, rs_target_len, rs_result,
          utc, last_sun_mar, last_sun_oct, offset,
          sc_value, sc_min, sc_max, sc_height, sc_span, sc_pixel,
          yg_min, yg_max, yg_step, yg_fb,
          ch_history, ch_span_label, ch_fb, ch_calls, ch_raised,
          clock, rtc, now_ms, last_swap, last_price_ms, swap_due, price_due,
          is_long_view, refresh_display, current_price, last_update,
          history_24h, history_365d, display_fb, panel, led, iter>>

ringVars == <<rb, delivered>>
resampleVars == <<rs_values, rs_target_len, rs_result>>
timeVars == <<utc, last_sun_mar, last_sun_oct, offset>>
scaleVars == <<sc_value, sc_min, sc_max, sc_height, sc_span, sc_pixel>>
ygridVars == <<yg_min, yg_max, yg_step, yg_fb>>
chartVars == <<ch_history, ch_span_label, ch_fb, ch_calls, ch_raised>>
mainVars == <<clock, rtc, now_ms, last_swap, last_price_ms, swap_due, price_due,
              is_long_view, refresh_display, current_price, last_update,
              history_24h, history_365d, display_fb, panel, led, iter>>

\* ---------------------------------------------------------------- bounds
MaxCap == 3          \* largest RingBuffer capacity explored
MaxDelivered == 5    \* most values delivered to one RingBuffer
MaxExtend == 2       \* longest list passed to extend
MaxValue == 2        \* sample values are 1..MaxValue
MaxInLen == 4        \* longest _resample input
MaxTargetLen == 5    \* largest _resample target_len
NumYears == 12       \* years explored: 2020 .. 2019 + NumYears
MaxGrain == 4        \* scale inputs are k and k/(2*10^6) for k in 0..MaxGrain
MaxHeight == 4       \* scale heights are 1..MaxHeight and chart_height
MaxGridMin == 12     \* y-grid minima are 0..MaxGridMin
MaxGridSpan == 45    \* y-grid spans (max - min) are 0..MaxGridSpan
MaxSample == 3       \* chart samples are 0..MaxSample
MaxPrice == 2        \* fetched prices are 1..MaxPrice
MaxRunMs == 130000   \* iterations start within MaxRunMs of the loop entry
MaxOutageStartMs == 65000  \* a long outage begins within this time of the loop entry
OutageMargin == 10000      \* a long outage is followed step by step from this
                           \* long before the timers are half a ticks period old
MaxTailMs == 30000         \* ... until this long after

\* ------------------------------------------------------------- utilities
Min2(a, b) == IF a <= b THEN a ELSE b
Max2(a, b) == IF a >= b THEN a ELSE b
Abs(a) == IF a < 0 THEN -a ELSE a

RECURSIVE Gcd(_, _)
Gcd(a, b) == IF b = 0 THEN a ELSE Gcd(b, a % b)

\* Rationals <<n, d>>, d > 0, in lowest terms.
RatBy(n, d, g) == IF d < 0 THEN <<(-n) \div g, (-d) \div g>> ELSE <<n \div g, d \div g>>
Rat(n, d) == IF d = 1 THEN <<n, 1>> ELSE RatBy(n, d, Gcd(Abs(n), Abs(d)))
RInt(i) == <<i, 1>>
\* Sums and comparisons go through the least common denominator.
RNumOver(a, b) == IF a[2] = b[2] THEN a[1] ELSE a[1] * (b[2] \div Gcd(a[2], b[2]))
RLcm(a, b) == IF a[2] = b[2] THEN a[2] ELSE (a[2] \div Gcd(a[2], b[2])) * b[2]
RAdd(a, b) == Rat(RNumOver(a, b) + RNumOver(b, a), RLcm(a, b))
RSub(a, b) == Rat(RNumOver(a, b) - RNumOver(b, a), RLcm(a, b))
RMulBy(a, b, g1, g2) ==
    Rat((a[1] \div g1) * (b[1] \div g2), (a[2] \div g2) * (b[2] \div g1))
RMul(a, b) ==
    RMulBy(a, b, IF b[2] = 1 THEN 1 ELSE Gcd(Abs(a[1]), b[2]),
                 IF a[2] = 1 THEN 1 ELSE Gcd(Abs(b[1]), a[2]))
RDiv(a, b) == RMul(a, IF b[1] < 0 THEN <<-b[2], -b[1]>> ELSE <<b[2], b[1]>>)
RLe(a, b) == RNumOver(a, b) <= RNumOver(b, a)
RLt(a, b) == RNumOver(a, b) < RNumOver(b, a)
RMax(a, b) == IF RLe(b, a) THEN a ELSE b
RFloor(a) == a[1] \div a[2]                       \* math.floor
RCeil(a) == -((-a[1]) \div a[2])                  \* math.ceil
RTrunc(a) == IF a[1] >= 0 THEN a[1] \div a[2] ELSE -((-a[1]) \div a[2])   \* int()

\* All sequences over S of length lo..hi.
SeqsOf(S, lo, hi) == UNION {[1..n -> S] : n \in lo..hi}

\* ------------------------------------------------------------ RingBuffer
RingBuffer(length) == [length |-> length, data |-> <<>>]

\* Mutation of append: evicts the newest element instead of the oldest.
RingBuffer_append_popLast(self, value) ==
    LET kept == IF Len(self.data) >= self.length
                THEN SubSeq(self.data, 1, Len(self.data) - 1)
                ELSE self.data
    IN  [self EXCEPT !.data = Append(kept, value)]

RingBuffer_append(self, value) ==
    LET kept == IF Len(self.data) >= self.length
                THEN Tail(self.data)              \* self.data.pop(0)
                ELSE self.data
    IN  [self EXCEPT !.data = Append(kept, value)]

RECURSIVE RingBuffer_extend(_, _)
RingBuffer_extend(self, vals) ==
    IF vals = <<>> THEN self
    ELSE RingBuffer_extend(RingBuffer_append(self, Head(vals)), Tail(vals))

Range(s) == {s[i] : i \in DOMAIN s}
SeqMin(s) == CHOOSE x \in Range(s) : \A y \in Range(s) : x <= y      \* min(self.data)
SeqMax(s) == CHOOSE x \in Range(s) : \A y \in Range(s) : x >= y      \* max(self.data)

RingBuffer_minmax(self) ==
    IF self.data = <<>> THEN <<0, 1>>
    ELSE <<SeqMin(self.data), SeqMax(self.data)>>

\* -------------------------------------------------------------- _resample
\* One output sample of the interpolation loop (lines 330-334).
_resample_at(vals, target_len, i) ==
    LET n == Len(vals)
        pos == Rat(i * (n - 1), target_len - 1)
        low == RTrunc(pos)
        high == Min2(low + 1, n - 1)
        frac == RSub(pos, RInt(low))
    IN  RAdd(RMul(RInt(vals[low + 1]), RSub(RInt(1), frac)),
             RMul(RInt(vals[high + 1]), frac))

\* Mutation: the source position is scaled by n instead of n - 1, so the last
\* sample is read past the interpolation range and clamped.
_resample_offByOne(vals, target_len) ==
    LET n == Len(vals)
    IN  IF n = 0 THEN <<>>
        ELSE IF n = target_len THEN [i \in 1..n |-> RInt(vals[i])]
        ELSE IF target_len = 1 THEN <<RInt(vals[n])>>
        ELSE [i \in 1..target_len |->
                LET pos == Rat((i - 1) * (n - 1), target_len)
                    low == RTrunc(pos)
                    high == Min2(low + 1, n - 1)
                    frac == RSub(pos, RInt(low))
                IN  RAdd(RMul(RInt(vals[low + 1]), RSub(RInt(1), frac)),
                         RMul(RInt(vals[high + 1]), frac))]

_resample(vals, target_len) ==
    LET n == Len(vals)
    IN  IF n = 0 THEN <<>>
        ELSE IF n = target_len THEN [i \in 1..n |-> RInt(vals[i])]
        ELSE IF target_len = 1 THEN <<RInt(vals[n])>>
        ELSE [i \in 1..target_len |-> _resample_at(vals, target_len, i - 1)]

\* -------------------------------------------- Europe/Berlin offset rule
\* Sakamoto's month offsets t (line 86).
SakamotoT == <<0, 3, 2, 5, 0, 3, 5, 1, 4, 6, 2, 4>>

\* 0 = Sunday .. 6 = Saturday.
_weekday(year, month, day) ==
    LET y == IF month < 3 THEN year - 1 ELSE year
    IN  (y + y \div 4 - y \div 100 + y \div 400 + SakamotoT[month] + day) % 7

\* The while loop of _last_sunday entered with the given last_day.
RECURSIVE _last_sunday_loop(_, _, _)
_last_sunday_loop(year, month, last_day) ==
    IF last_day > 27
    THEN IF _weekday(year, month, last_day) = 0
         THEN last_day
         ELSE _last_sunday_loop(year, month, last_day - 1)
    ELSE last_day

_last_sunday(year, month) == _last_sunday_loop(year, month, 31)

\* Mutation: the March switch hour is compared with > instead of >=.
_berlin_offset_seconds_lateSwitch(utc_tuple) ==
    LET year == utc_tuple[1]
        month == utc_tuple[2]
        day == utc_tuple[3]
        hour == utc_tuple[4]
        mar == _last_sunday(year, 3)
        oct == _last_sunday(year, 10)
        dst == IF 4 <= month /\ month <= 9 THEN TRUE
               ELSE IF month = 3 THEN day > mar \/ (day = mar /\ hour > 2)
               ELSE IF month = 10 THEN day < oct \/ (day = oct /\ hour < 3)
               ELSE FALSE
    IN  IF dst THEN 7200 ELSE 3600

_berlin_offset_seconds(utc_tuple) ==
    LET year == utc_tuple[1]
        month == utc_tuple[2]
        day == utc_tuple[3]
        hour == utc_tuple[4]
        mar == _last_sunday(year, 3)
        oct == _last_sunday(year, 10)
        dst == IF 4 <= month /\ month <= 9 THEN TRUE
               ELSE IF month = 3 THEN day > mar \/ (day = mar /\ hour >= 2)
               ELSE IF month = 10 THEN day < oct \/ (day = oct /\ hour < 3)
               ELSE FALSE
    IN  IF dst THEN 7200 ELSE 3600

\* ------------------------------------------------------------ ChartScaler
EPS_DEN == 1000000                  \* the literal 1e-6 is 1/EPS_DEN
EPS == <<1, EPS_DEN>>
chart_height == 64

\* span = max(max_val - min_val, 1e-6)   (draw_chart, line 284)
chart_span(min_val, max_val) == RMax(RSub(max_val, min_val), EPS)

\* Python round(): nearest integer, ties to the even one.
RRound(a) ==
    LET f == RFloor(a)
        twice == RSub(RMul(RInt(2), a), RInt(2 * f))   \* 2 * fractional part
    IN  IF RLt(twice, RInt(1)) THEN f
        ELSE IF RLt(RInt(1), twice) THEN f + 1
        ELSE IF f % 2 = 0 THEN f ELSE f + 1

\* Mutation: the quotient is rounded to the nearest integer.
_scale_rounded(value, min_val, span, height) ==
    RRound(RMul(RDiv(RSub(value, min_val), span), RInt(height - 1)))

\* Mutation: the quotient is scaled by height instead of height - 1.
_scale_fullHeight(value, min_val, span, height) ==
    RTrunc(RMul(RDiv(RSub(value, min_val), span), RInt(height)))

_scale(value, min_val, span, height) ==
    RTrunc(RMul(RDiv(RSub(value, min_val), span), RInt(height - 1)))

\* 10 ** math.floor(math.log10(rough)) for rough > 0: the largest power of
\* ten that is <= rough.
RECURSIVE Pow10Up(_, _)
Pow10Up(rough, m) ==
    IF RLe(RMul(RInt(10), m), rough) THEN Pow10Up(rough, RMul(RInt(10), m)) ELSE m
RECURSIVE Pow10Down(_, _)
Pow10Down(rough, m) ==
    IF RLe(m, rough) THEN m ELSE Pow10Down(rough, RDiv(m, RInt(10)))
Pow10Floor(rough) ==
    IF RLe(RInt(1), rough) THEN Pow10Up(rough, RInt(1))
    ELSE Pow10Down(rough, Rat(1, 10))

\* The factor loop of _nice_step over (1, 2, 5, 10), from position k.
NiceFactors == <<1, 2, 5, 10>>
RECURSIVE _nice_step_loop(_, _, _)
_nice_step_loop(span, magnitude, k) ==
    IF k > Len(NiceFactors) THEN magnitude
    ELSE LET step == RMul(RInt(NiceFactors[k]), magnitude)
         IN  IF RLe(RDiv(span, step), RInt(6)) THEN step
             ELSE _nice_step_loop(span, magnitude, k + 1)

_nice_step(span) ==
    LET rough == RDiv(span, RInt(4))
        magnitude == IF RLt(RInt(0), rough) THEN Pow10Floor(rough) ELSE RInt(1)
    IN  _nice_step_loop(span, magnitude, 1)

\* ------------------------------------------------------------ ChartRenderer
FG_COLOR == 0
BG_COLOR == 1
EPD_WIDTH == 296
EPD_HEIGHT == 128
chart_left == 55
chart_top == 34
chart_width == EPD_WIDTH - chart_left - 6
HISTORY_LENGTH_24H == 96
HISTORY_LENGTH_365D == 365

\* Drawing calls on the FrameBuffer.
FbRect(x, y, w, h, c) == [op |-> "rect", x |-> x, y |-> y, w |-> w, h |-> h, c |-> c]
FbText(str, x, y, c) == [op |-> "text", s |-> str, x |-> x, y |-> y, c |-> c]
FbHline(x, y, w, c) == [op |-> "hline", x |-> x, y |-> y, w |-> w, c |-> c]
FbVline(x, y, h, c) == [op |-> "vline", x |-> x, y |-> y, h |-> h, c |-> c]
FbLine(x1, y1, x2, y2, c) ==
    [op |-> "line", x1 |-> x1, y1 |-> y1, x2 |-> x2, y2 |-> y2, c |-> c]

\* _format_k: one decimal of thousands with a "k" suffix from 1000 on, no
\* decimals below; the text is kept as <<rounded digits, suffix>>.
_format_k(value) ==
    IF RLe(RInt(1000), value) \/ RLe(value, RInt(-1000))
    THEN <<RRound(RDiv(value, RInt(100))), "k">>
    ELSE <<RRound(value), "">>

\* _hline_dashed / _vline_dashed with dash=3, gap=2: pos runs over x, x + 5,
\* x + 10, ... while pos < end; each run is min(dash, end - pos) long.
DashStarts(from, length) == [k \in 1..((length + 4) \div 5) |-> from + 5 * (k - 1)]
_hline_dashed(x, y, length, color) ==
    [k \in 1..((length + 4) \div 5) |->
        FbHline(DashStarts(x, length)[k], y,
                Min2(3, x + length - DashStarts(x, length)[k]), color)]
_vline_dashed(x, y, length, color) ==
    [k \in 1..((length + 4) \div 5) |->
        FbVline(x, DashStarts(y, length)[k],
                Min2(3, y + length - DashStarts(y, length)[k]), color)]

\* The while loop of _draw_y_grid from the gridline value y on.
RECURSIVE _draw_y_grid_loop(_, _, _, _, _, _, _, _)
_draw_y_grid_loop(y, left, top, width, height, min_val, max_val, step) ==
    IF RLe(y, max_val)
    THEN LET off == _scale(y, min_val, chart_span(min_val, max_val), height)
         IN  _hline_dashed(left, top + height - off, width, FG_COLOR)
                \o <<FbText(_format_k(y), 4, top + height - off - 4, FG_COLOR)>>
                \o _draw_y_grid_loop(RAdd(y, step), left, top, width, height,
                                     min_val, max_val, step)
    ELSE <<>>

_draw_y_grid(left, top, width, height, min_val, max_val, step) ==
    LET start == RMul(RInt(RCeil(RDiv(min_val, step))), step)
    IN  _draw_y_grid_loop(start, left, top, width, height, min_val, max_val, step)

\* int(left + idx * step_x), for the integer left and idx * step_x >= 0.
XPixel(left, idx, step_x) == left + (idx * step_x[1]) \div step_x[2]

\* The for loop of _draw_x_grid over range(step_points, points, step_points).
RECURSIVE _draw_x_grid_loop(_, _, _, _, _, _, _)
_draw_x_grid_loop(idx, left, top, height, step_x, points, step_points) ==
    IF idx < points
    THEN _vline_dashed(XPixel(left, idx, step_x), top, height, FG_COLOR)
            \o _draw_x_grid_loop(idx + step_points, left, top, height, step_x,
                                 points, step_points)
    ELSE <<>>

\* Mutation: one gridline fewer, the loop starts at the second multiple.
_draw_x_grid_skipFirst(left, top, height, step_x, points, span_label) ==
    IF points < 2 THEN <<>>
    ELSE LET desired_lines == IF span_label = "365d" THEN 12 ELSE 6
             step_points == Max2(1, points \div desired_lines)
         IN  _draw_x_grid_loop(2 * step_points, left, top, height, step_x,
                               points, step_points)

_draw_x_grid(left, top, height, step_x, points, span_label) ==
    IF points < 2 THEN <<>>
    ELSE LET desired_lines == IF span_label = "365d" THEN 12 ELSE 6
             step_points == Max2(1, points \div desired_lines)
         IN  _draw_x_grid_loop(step_points, left, top, height, step_x,
                               points, step_points)

\* The border rectangle draw_chart always draws (line 278).
ChartBorder == FbRect(chart_left - 1, chart_top - 1, chart_width + 2, chart_height + 2, FG_COLOR)
\* The placeholder of an empty history (line 280).
ChartPlaceholder ==
    FbText(<<"keine Daten">>, chart_left + 4, chart_top + chart_height \div 2, FG_COLOR)

\* Mutation: the empty-history return is missing; the grid is drawn from
\* the (0, 1) range minmax reports for no data, and history.data[0] raises.
draw_chart_noReturn(history, span_label) ==
    LET mm == RingBuffer_minmax(history)
        span == chart_span(RInt(mm[1]), RInt(mm[2]))
    IN  [fb |-> <<ChartBorder>>
                \o (IF history.data = <<>> THEN <<ChartPlaceholder>> ELSE <<>>)
                \o _draw_y_grid(chart_left, chart_top, chart_width, chart_height,
                                RInt(mm[1]), RInt(mm[2]), _nice_step(span)),
         calls |-> <<"minmax", "_nice_step", "_draw_y_grid", "_draw_x_grid">>,
         raised |-> (history.data = <<>>)]

\* The polyline loop of draw_chart (lines 290-297) over the pixel positions
\* pts[1..n] of the samples: one line from each point to the next.
ChartPolyline(pts) ==
    [idx \in 1..(Len(pts) - 1) |->
        FbLine(pts[idx][1], pts[idx][2], pts[idx + 1][1], pts[idx + 1][2], FG_COLOR)]

\* The pixel positions (x, y) of the samples (lines 290-295).
ChartPoints(data, min_val, span, step_x) ==
    [i \in 1..Len(data) |->
        <<IF i = 1 THEN chart_left ELSE XPixel(chart_left, i - 1, step_x),
          chart_top + chart_height - _scale(RInt(data[i]), min_val, span, chart_height)>>]

\* draw_chart from line 285 on, for a non-empty history with the given
\* min_val, max_val and span.
draw_chart_filled(history, span_label, points, min_val, max_val, span) ==
    LET step_x == Rat(chart_width, Max2(1, points - 1))
        y_step == _nice_step(span)
    IN  [fb |-> <<ChartBorder>>
                \o _draw_y_grid(chart_left, chart_top, chart_width, chart_height,
                                min_val, max_val, y_step)
                \o _draw_x_grid(chart_left, chart_top, chart_height, step_x,
                                points, span_label)
                \o ChartPolyline(ChartPoints(history.data, min_val, span, step_x))
                \o <<FbText(<<"Min ", RRound(min_val), " EUR">>, chart_left,
                            chart_top + chart_height + 4, FG_COLOR),
                     FbText(<<"Max ", RRound(max_val), " EUR">>, chart_left + 110,
                            chart_top + chart_height + 4, FG_COLOR),
                     FbText(<<span_label>>, chart_left + chart_width - 36,
                            chart_top - 9, FG_COLOR)>>,
         calls |-> <<"minmax", "_nice_step", "_draw_y_grid", "_draw_x_grid">>,
         raised |-> FALSE]

\* draw_chart: the drawing calls it issues and the helpers it calls.
draw_chart(history, span_label) ==
    IF history.data = <<>>
    THEN [fb |-> <<ChartBorder, ChartPlaceholder>>, calls |-> <<>>, raised |-> FALSE]
    ELSE draw_chart_filled(history, span_label, Len(history.data),
                           RInt(RingBuffer_minmax(history)[1]),
                           RInt(RingBuffer_minmax(history)[2]),
                           chart_span(RInt(RingBuffer_minmax(history)[1]),
                                      RInt(RingBuffer_minmax(history)[2])))

\* -------------------------------------------------------------- main loop
PRICE_REFRESH_SECONDS == 60
SCREEN_SWAP_SECONDS == 60
LOOP_SLEEP_SECONDS == 5

\* time.ticks_ms() wraps at TICKS_PERIOD; time.ticks_diff is the signed
\* difference modulo TICKS_PERIOD.
TICKS_PERIOD == 1073741824
ticks_ms(c) == c % TICKS_PERIOD
ticks_diff(a, b) ==
    ((a - b + TICKS_PERIOD \div 2) % TICKS_PERIOD) - TICKS_PERIOD \div 2

\* The RTC date of the run; rtc counts the seconds of that day.
RtcDate == <<2024, 3, 31>>
\* time.localtime(): <<year, month, mday, hour, minute, second>>; the days
\* after RtcDate (the 31st of March) are the days of April.
localtime(secs) ==
    LET days == secs \div 86400
        rem == secs % 86400
    IN  <<RtcDate[1],
          IF days = 0 THEN RtcDate[2] ELSE RtcDate[2] + 1,
          IF days = 0 THEN RtcDate[3] ELSE days,
          rem \div 3600, (rem % 3600) \div 60, rem % 60>>

\* _now_local_berlin with the RTC at secs: the UTC tuple shifted by the
\* Berlin offset (mktime + offset, then localtime).
_now_local_berlin(secs) == localtime(secs + _berlin_offset_seconds(localtime(secs)))

\* draw_header: black bar, caption, scaled price text.
draw_header(price) ==
    << [op |-> "fill_rect", x |-> 0, y |-> 0, w |-> EPD_WIDTH, h |-> 23, c |-> FG_COLOR],
       FbText(<<"BTC/EUR">>, 6, 8, BG_COLOR),
       [op |-> "text_scaled", s |-> <<price, " EUR">>, x |-> 120, y |-> 5,
        scale |-> 2, c |-> FG_COLOR, bg |-> BG_COLOR] >>

\* draw_footer: the time stamp, when there is one.
draw_footer(update) ==
    IF update = <<>> THEN <<>>
    ELSE <<FbText(<<"Stand: ", update>>, 6, EPD_HEIGHT - 14, FG_COLOR)>>

\* The frame of the except branch (lines 511-513).
ErrorFrame ==
    << [op |-> "fill", c |-> BG_COLOR],
       FbText(<<"Fehler:">>, 6, 6, FG_COLOR),
       FbText(<<"repr(exc)">>, 6, 22, FG_COLOR) >>

\* The frame of the refresh branch (lines 501-507).
ChartFrame(price, history, span_label, update) ==
    << [op |-> "fill", c |-> BG_COLOR] >>
        \o draw_header(price)
        \o draw_chart(history, span_label).fb
        \o draw_footer(update)

\* Mutation: the price is fetched only when the price timer is due.
fetch_due_priceOnly(p_due, s_due) == p_due

\* The condition of line 482.
fetch_due(p_due, s_due) == p_due \/ s_due

\* How long the calls of one iteration take, in milliseconds.
FetchMs == {1000, 3000}     \* fetch_price_eur, returning or raising
FlushMs == 2000             \* display.flush()

\* The first loop iteration starts at one of these clock values: shortly
\* after boot, or shortly before the ticks counter wraps.
StartClocks == {20000, TICKS_PERIOD - 50000}

\* ------------------------------------------------------ idle sub-states
MainIdle ==
    /\ clock = 0 /\ rtc = 0 /\ now_ms = 0 /\ last_swap = 0 /\ last_price_ms = 0
    /\ swap_due = FALSE /\ price_due = FALSE
    /\ is_long_view = FALSE /\ refresh_display = FALSE
    /\ current_price = 0 /\ last_update = <<>>
    /\ history_24h = RingBuffer(HISTORY_LENGTH_24H)
    /\ history_365d = RingBuffer(HISTORY_LENGTH_365D)
    /\ display_fb = <<>> /\ panel = <<>> /\ led = FALSE
    /\ iter = [fetched |-> FALSE, raised |-> FALSE, appended |-> FALSE,
               toggled |-> FALSE, flushed |-> "none"]
YGridIdle ==
    /\ yg_min = 0 /\ yg_max = 0 /\ yg_step = RInt(0) /\ yg_fb = <<>>
ChartIdle ==
    /\ ch_history = RingBuffer(1) /\ ch_span_label = "24h"
    /\ ch_fb = <<>> /\ ch_calls = <<>> /\ ch_raised = FALSE
RingIdle == rb = RingBuffer(1) /\ delivered = <<>>
ResampleIdle == rs_values = <<>> /\ rs_target_len = 1 /\ rs_result = <<>>
TimeIdle ==
    /\ utc = <<2024, 1, 1, 0, 0>>
    /\ last_sun_mar = 0 /\ last_sun_oct = 0 /\ offset = 0
ScaleIdle ==
    /\ sc_value = RInt(0) /\ sc_min = RInt(0) /\ sc_max = RInt(0)
    /\ sc_height = 1 /\ sc_span = RInt(0) /\ sc_pixel = 0

\* ================================================= specification: RingBuffer
InitRing ==
    /\ pc = "ring"
    /\ \E n \in 1..MaxCap : rb = RingBuffer(n)
    /\ delivered = <<>>
    /\ ResampleIdle /\ TimeIdle /\ ScaleIdle /\ YGridIdle /\ ChartIdle /\ MainIdle

DoAppend ==
    /\ pc = "ring"
    /\ Len(delivered) < MaxDelivered
    /\ \E v \in 1..MaxValue :
        /\ rb' = RingBuffer_append(rb, v)
        /\ delivered' = Append(delivered, v)
    /\ UNCHANGED <<pc, resampleVars, timeVars, scaleVars, ygridVars, chartVars, mainVars>>

DoExtend ==
    /\ pc = "ring"
    /\ \E vs \in SeqsOf(1..MaxValue, 0, MaxExtend) :
        /\ Len(delivered) + Len(vs) <= MaxDelivered
        /\ rb' = RingBuffer_extend(rb, vs)
        /\ delivered' = delivered \o vs
    /\ UNCHANGED <<pc, resampleVars, timeVars, scaleVars, ygridVars, chartVars, mainVars>>

NextRing == DoAppend \/ DoExtend

SpecRing == InitRing /\ [][NextRing]_vars

\* ================================================== specification: _resample
InitResample ==
    /\ pc = "input"
    /\ rs_values \in SeqsOf(1..MaxValue, 0, MaxInLen)
    /\ rs_target_len \in 1..MaxTargetLen
    /\ rs_result = <<>>
    /\ RingIdle /\ TimeIdle /\ ScaleIdle /\ YGridIdle /\ ChartIdle /\ MainIdle

CallResample ==
    /\ pc = "input"
    /\ rs_result' = _resample(rs_values, rs_target_len)
    /\ pc' = "done"
    /\ UNCHANGED <<rs_values, rs_target_len, ringVars, timeVars, scaleVars, ygridVars, chartVars, mainVars>>

NextResample == CallResample

SpecResample == InitResample /\ [][NextResample]_vars

\* ============================================ specification: Berlin offset
Years == 2020..(2019 + NumYears)
IsLeap(year) == (year % 4 = 0 /\ year % 100 # 0) \/ year % 400 = 0
DaysInMonth(year, month) ==
    IF month = 2 THEN (IF IsLeap(year) THEN 29 ELSE 28)
    ELSE IF month \in {4, 6, 9, 11} THEN 30
    ELSE 31

InitTime ==
    /\ pc = "input"
    /\ \E year \in Years, month \in 1..12, hour \in 0..23, minute \in {0, 59} :
        \E day \in 1..DaysInMonth(year, month) :
            utc = <<year, month, day, hour, minute>>
    /\ last_sun_mar = 0 /\ last_sun_oct = 0 /\ offset = 0
    /\ RingIdle /\ ResampleIdle /\ ScaleIdle /\ YGridIdle /\ ChartIdle /\ MainIdle

CallBerlinOffset ==
    /\ pc = "input"
    /\ last_sun_mar' = _last_sunday(utc[1], 3)
    /\ last_sun_oct' = _last_sunday(utc[1], 10)
    /\ offset' = _berlin_offset_seconds(utc)
    /\ pc' = "done"
    /\ UNCHANGED <<utc, ringVars, resampleVars, scaleVars, ygridVars, chartVars, mainVars>>

NextTime == CallBerlinOffset

SpecTime == InitTime /\ [][NextTime]_vars

\* ===================================================== specification: _scale
ScaleInputs ==
    {RInt(k) : k \in 0..MaxGrain} \cup {Rat(k, 2 * EPS_DEN) : k \in 0..MaxGrain}

InitScale ==
    /\ pc = "input"
    /\ sc_min \in ScaleInputs
    /\ sc_max \in ScaleInputs
    /\ sc_value \in ScaleInputs
    /\ RLe(sc_min, sc_value) /\ RLe(sc_value, sc_max)
    /\ sc_height \in (1..MaxHeight) \cup {chart_height}
    /\ sc_span = RInt(0) /\ sc_pixel = 0
    /\ RingIdle /\ ResampleIdle /\ TimeIdle /\ YGridIdle /\ ChartIdle /\ MainIdle

CallScale ==
    /\ pc = "input"
    /\ sc_span' = chart_span(sc_min, sc_max)
    /\ sc_pixel' = _scale(sc_value, sc_min, chart_span(sc_min, sc_max), sc_height)
    /\ pc' = "done"
    /\ UNCHANGED <<sc_value, sc_min, sc_max, sc_height, ringVars, resampleVars, timeVars,
                   ygridVars, chartVars, mainVars>>

NextScale == CallScale

SpecScale == InitScale /\ [][NextScale]_vars

\* ================================================== specification: y grid
\* draw_chart lines 283-287 for a history whose minimum and maximum are
\* yg_min and yg_max.
InitYGrid ==
    /\ pc = "input"
    /\ yg_min \in 0..MaxGridMin
    /\ \E sp \in 0..MaxGridSpan : yg_max = yg_min + sp
    /\ yg_step = RInt(0) /\ yg_fb = <<>>
    /\ RingIdle /\ ResampleIdle /\ TimeIdle /\ ScaleIdle /\ ChartIdle /\ MainIdle

CallDrawYGrid ==
    /\ pc = "input"
    /\ LET span == chart_span(RInt(yg_min), RInt(yg_max))
           y_step == _nice_step(span)
       IN  /\ yg_step' = y_step
           /\ yg_fb' = _draw_y_grid(chart_left, chart_top, chart_width, chart_height,
                                    RInt(yg_min), RInt(yg_max), y_step)
    /\ pc' = "done"
    /\ UNCHANGED <<yg_min, yg_max, ringVars, resampleVars, timeVars, scaleVars, chartVars,
                   mainVars>>

NextYGrid == CallDrawYGrid

SpecYGrid == InitYGrid /\ [][NextYGrid]_vars

\* ================================================= specification: draw_chart
\* The sample series of a chart: n samples following one of three shapes.
ChartSeries(n, shape) ==
    [i \in 1..n |-> IF shape = "flat" THEN MaxSample
                    ELSE IF shape = "zigzag" THEN (i % 2) * MaxSample
                    ELSE i % (MaxSample + 1)]

\* main pairs the label with the buffer (lines 501-502).
InitChart ==
    /\ pc = "input"
    /\ \E long \in BOOLEAN, shape \in {"flat", "zigzag", "saw"} :
        LET cap == IF long THEN HISTORY_LENGTH_365D ELSE HISTORY_LENGTH_24H
        IN  /\ ch_span_label = (IF long THEN "365d" ELSE "24h")
            /\ \E n \in 0..cap :
                ch_history = [RingBuffer(cap) EXCEPT !.data = ChartSeries(n, shape)]
    /\ ch_fb = <<>> /\ ch_calls = <<>> /\ ch_raised = FALSE
    /\ RingIdle /\ ResampleIdle /\ TimeIdle /\ ScaleIdle /\ YGridIdle /\ MainIdle

CallDrawChart ==
    /\ pc = "input"
    /\ LET r == draw_chart(ch_history, ch_span_label)
       IN  ch_fb' = r.fb /\ ch_calls' = r.calls /\ ch_raised' = r.raised
    /\ pc' = "done"
    /\ UNCHANGED <<ch_history, ch_span_label, ringVars, resampleVars, timeVars,
                   scaleVars, ygridVars, mainVars>>

NextChart == CallDrawChart

SpecChart == InitChart /\ [][NextChart]_vars

\* ================================================== specification: main loop
\* The state at the loop entry (line 475): each history was loaded (a full
\* resampled series) or not (fetch failed or returned nothing), the start
\* price was fetched and appended, both timers were just set.
InitMain ==
    /\ pc = "loop"
    /\ clock \in StartClocks
    /\ rtc = 3600 + 59 * 60
    /\ now_ms = ticks_ms(clock)
    /\ last_price_ms = ticks_ms(clock)
    /\ last_swap = ticks_ms(clock)
    /\ swap_due = FALSE /\ price_due = FALSE
    /\ is_long_view = FALSE
    /\ refresh_display = TRUE
    /\ current_price \in 1..MaxPrice
    /\ last_update = _now_local_berlin(rtc)
    /\ \E loaded \in BOOLEAN :
        history_24h = RingBuffer_append(
            [RingBuffer(HISTORY_LENGTH_24H) EXCEPT
                !.data = IF loaded THEN ChartSeries(HISTORY_LENGTH_24H, "saw") ELSE <<>>],
            current_price)
    /\ \E loaded \in BOOLEAN :
        history_365d = RingBuffer_append(
            [RingBuffer(HISTORY_LENGTH_365D) EXCEPT
                !.data = IF loaded THEN ChartSeries(HISTORY_LENGTH_365D, "saw") ELSE <<>>],
            current_price)
    /\ display_fb = <<>> /\ panel = <<>> /\ led = FALSE
    /\ iter = [fetched |-> FALSE, raised |-> FALSE, appended |-> FALSE,
               toggled |-> FALSE, flushed |-> "none"]
    /\ RingIdle /\ ResampleIdle /\ TimeIdle /\ ScaleIdle /\ YGridIdle /\ ChartIdle

\* One pass of the while loop (lines 476-517) in which fetch_price_eur is not
\* called or returns `price` after fetch_ms milliseconds.
IterationOk(price, fetch_ms) ==
    LET now == ticks_ms(clock)
        s_due == ticks_diff(now, last_swap) >= SCREEN_SWAP_SECONDS * 1000
        p_due == ticks_diff(now, last_price_ms) >= PRICE_REFRESH_SECONDS * 1000
        fetch == fetch_due(p_due, s_due)
        spent == IF fetch THEN fetch_ms ELSE 0
        price1 == IF fetch THEN price ELSE current_price
        update1 == IF fetch THEN _now_local_berlin(rtc + spent \div 1000) ELSE last_update
        h24 == IF fetch THEN RingBuffer_append(history_24h, price) ELSE history_24h
        h365 == IF fetch THEN RingBuffer_append(history_365d, price) ELSE history_365d
        long1 == IF s_due THEN ~is_long_view ELSE is_long_view
        refresh == refresh_display \/ fetch \/ s_due
        frame == ChartFrame(price1, IF long1 THEN h365 ELSE h24,
                            IF long1 THEN "365d" ELSE "24h", update1)
        total == spent + (IF refresh THEN FlushMs ELSE 0) + LOOP_SLEEP_SECONDS * 1000
    IN  /\ now_ms' = now
        /\ swap_due' = s_due
        /\ price_due' = p_due
        /\ current_price' = price1
        /\ last_price_ms' = IF fetch THEN ticks_ms(clock + spent) ELSE last_price_ms
        /\ last_update' = update1
        /\ history_24h' = h24
        /\ history_365d' = h365
        /\ is_long_view' = long1
        /\ last_swap' = IF s_due THEN now ELSE last_swap
        /\ display_fb' = IF refresh THEN frame ELSE display_fb
        /\ panel' = IF refresh THEN display_fb' ELSE panel
        /\ refresh_display' = FALSE
        /\ led' = FALSE
        /\ iter' = [fetched |-> fetch, raised |-> FALSE, appended |-> fetch,
                    toggled |-> s_due, flushed |-> IF refresh THEN "chart" ELSE "none"]
        /\ clock' = clock + total
        /\ rtc' = rtc + total \div 1000

\* One pass of the while loop in which fetch_price_eur raises after fetch_ms
\* milliseconds: the except branch shows the error frame.
IterationRaise(fetch_ms) ==
    LET now == ticks_ms(clock)
        s_due == ticks_diff(now, last_swap) >= SCREEN_SWAP_SECONDS * 1000
        p_due == ticks_diff(now, last_price_ms) >= PRICE_REFRESH_SECONDS * 1000
        total == fetch_ms + FlushMs + LOOP_SLEEP_SECONDS * 1000
    IN  /\ fetch_due(p_due, s_due)
        /\ now_ms' = now
        /\ swap_due' = s_due
        /\ price_due' = p_due
        /\ display_fb' = ErrorFrame
        /\ panel' = ErrorFrame
        /\ led' = FALSE
        /\ iter' = [fetched |-> TRUE, raised |-> TRUE, appended |-> FALSE,
                    toggled |-> FALSE, flushed |-> "error"]
        /\ clock' = clock + total
        /\ rtc' = rtc + total \div 1000
        /\ UNCHANGED <<current_price, last_price_ms, last_update, history_24h,
                       history_365d, is_long_view, last_swap, refresh_display>>

\* A run of k consecutive passes of the while loop in which fetch_price_eur
\* raises each time after fetch_ms milliseconds, taken as one step. No pass of
\* the run assigns last_price_ms or last_swap, so the age d of a timer that is
\* due at the first pass grows by one cycle per pass; as long as it stays below
\* half a ticks period, ticks_diff returns it unwrapped and every pass of the
\* run finds the fetch due. The state after the run is the state after its
\* last pass.
OutageRun(fetch_ms) ==
    LET now == ticks_ms(clock)
        cycle == fetch_ms + FlushMs + LOOP_SLEEP_SECONDS * 1000
        d_s == ticks_diff(now, last_swap)
        d_p == ticks_diff(now, last_price_ms)
        d == IF d_p >= PRICE_REFRESH_SECONDS * 1000 THEN d_p ELSE d_s
        k == (TICKS_PERIOD \div 2 - OutageMargin - d) \div cycle
        last == clock + (k - 1) * cycle
    IN  /\ d >= PRICE_REFRESH_SECONDS * 1000
        /\ d >= SCREEN_SWAP_SECONDS * 1000
        /\ k >= 1
        /\ d + (k - 1) * cycle < TICKS_PERIOD \div 2
        /\ now_ms' = ticks_ms(last)
        /\ swap_due' = (ticks_diff(ticks_ms(last), last_swap) >= SCREEN_SWAP_SECONDS * 1000)
        /\ price_due' = (ticks_diff(ticks_ms(last), last_price_ms) >= PRICE_REFRESH_SECONDS * 1000)
        /\ fetch_due(price_due', swap_due')
        /\ display_fb' = ErrorFrame
        /\ panel' = ErrorFrame
        /\ led' = FALSE
        /\ iter' = [fetched |-> TRUE, raised |-> TRUE, appended |-> FALSE,
                    toggled |-> FALSE, flushed |-> "error"]
        /\ clock' = clock + k * cycle
        /\ rtc' = rtc + k * (cycle \div 1000)
        /\ UNCHANGED <<current_price, last_price_ms, last_update, history_24h,
                       history_365d, is_long_view, last_swap, refresh_display>>

\* The iterations the model follows: those starting within MaxRunMs of the
\* loop entry, and those starting around half a ticks period after it.
InRun ==
    \E c \in StartClocks :
        /\ c <= clock
        /\ \/ clock - c <= MaxRunMs
           \/ /\ clock - c >= TICKS_PERIOD \div 2 - MaxRunMs
              /\ clock - c <= TICKS_PERIOD \div 2 + MaxTailMs

\* Whether the iteration starting now calls fetch_price_eur.
FetchIsDue ==
    fetch_due(ticks_diff(ticks_ms(clock), last_price_ms) >= PRICE_REFRESH_SECONDS * 1000,
              ticks_diff(ticks_ms(clock), last_swap) >= SCREEN_SWAP_SECONDS * 1000)

MainLoopOk ==
    /\ pc = "loop"
    /\ InRun
    /\ IF FetchIsDue
       THEN \E price \in 1..MaxPrice, fetch_ms \in FetchMs : IterationOk(price, fetch_ms)
       ELSE IterationOk(current_price, 0)
    /\ UNCHANGED <<pc, ringVars, resampleVars, timeVars, scaleVars, ygridVars, chartVars>>

MainLoopRaise ==
    /\ pc = "loop"
    /\ InRun
    /\ \E fetch_ms \in FetchMs : IterationRaise(fetch_ms)
    /\ UNCHANGED <<pc, ringVars, resampleVars, timeVars, scaleVars, ygridVars, chartVars>>

MainLoopOutage ==
    /\ pc = "loop"
    /\ \E c \in StartClocks : c <= clock /\ clock - c <= MaxOutageStartMs
    /\ \E fetch_ms \in FetchMs : OutageRun(fetch_ms)
    /\ UNCHANGED <<pc, ringVars, resampleVars, timeVars, scaleVars, ygridVars, chartVars>>

NextMain == MainLoopOk \/ MainLoopRaise \/ MainLoopOutage

SpecMain == InitMain /\ [][NextMain]_vars

\* ==================================================================== claims

\* C1: in every reachable state the buffer holds at most `length` values and
\* exactly the last min(k, length) of the k delivered values, in delivery order.
LastN(s, k) == SubSeq(s, Len(s) - k + 1, Len(s))
C1_FifoInvariant ==
    pc = "ring" =>
        /\ Len(rb.data) <= rb.length
        /\ rb.data = LastN(delivered, Min2(Len(delivered), rb.length))

\* C1 witness: more values were delivered than fit, so the oldest were evicted.
C1_Witness ==
    /\ pc = "ring"
    /\ Len(delivered) > rb.length
    /\ rb.length >= 2
    /\ delivered[1] # delivered[Len(delivered)]
    /\ Len(rb.data) = rb.length

\* C2: for non-empty values and target_len >= 2 the first and the last
\* resampled elements equal the first and the last input elements.
C2_ResampleEndpoints ==
    (pc = "done" /\ Len(rs_values) >= 1 /\ rs_target_len >= 2) =>
        /\ Len(rs_result) = rs_target_len
        /\ rs_result[1] = RInt(rs_values[1])
        /\ rs_result[rs_target_len] = RInt(rs_values[Len(rs_values)])

\* C2 witness: a down-sampling call whose input has distinct ends.
C2_Witness ==
    /\ pc = "done"
    /\ Len(rs_values) > rs_target_len
    /\ rs_target_len >= 2
    /\ rs_values[1] # rs_values[Len(rs_values)]
    /\ rs_result[rs_target_len] = RInt(rs_values[Len(rs_values)])

\* The day-of-month of the last Sunday of a 31-day month.
IsLastSunday(year, month, d) ==
    /\ _weekday(year, month, d) = 0
    /\ \A e \in (d + 1)..31 : _weekday(year, month, e) # 0

\* C3: for month 3 and month 10 of every year _last_sunday returns the
\* day-of-month of the last Sunday of that month.
C3_LastSundayIsSunday ==
    pc = "done" =>
        /\ IsLastSunday(utc[1], 3, last_sun_mar)
        /\ IsLastSunday(utc[1], 10, last_sun_oct)

\* C4: the offset is 7200 exactly in months 4..9, in March from the computed
\* last-Sunday day at hour 2 on, and in October before the computed
\* last-Sunday day at hour 3; it is 3600 otherwise.  The four 2024 boundary
\* instants give 3600, 7200, 7200, 3600.
C4_DaylightRule(y, m, d, h) ==
    \/ m \in 4..9
    \/ m = 3 /\ (d > last_sun_mar \/ (d = last_sun_mar /\ h >= 2))
    \/ m = 10 /\ (d < last_sun_oct \/ (d = last_sun_oct /\ h < 3))
C5_ScaleBoundsAnySpan ==
    (pc = "done" /\ RLt(sc_min, sc_max)) =>
        /\ sc_value = sc_min => sc_pixel = 0
        /\ sc_value = sc_max => sc_pixel = sc_height - 1
        /\ sc_pixel \in 0..(sc_height - 1)

\* C5 amended: whenever max - min >= 1e-6 (so that span = max - min),
\* _scale maps min to 0 and max to height - 1 and every value between them
\* into 0..height-1.
C5_ScaleBounds ==
    (pc = "done" /\ RLe(EPS, RSub(sc_max, sc_min))) =>
        /\ sc_span = RSub(sc_max, sc_min)
        /\ sc_value = sc_min => sc_pixel = 0
        /\ sc_value = sc_max => sc_pixel = sc_height - 1
        /\ sc_pixel \in 0..(sc_height - 1)

\* C5 witness: the maximum of a range of at least 1e-6 scaled into the chart
\* height.
C5_Witness ==
    /\ pc = "done"
    /\ RLe(EPS, RSub(sc_max, sc_min))
    /\ sc_value = sc_max
    /\ sc_height = chart_height
    /\ sc_pixel = chart_height - 1

\* The exact quotient ((value - min) / span) * (height - 1) of the last call.
C6_Quotient == RMul(RDiv(RSub(sc_value, sc_min), sc_span), RInt(sc_height - 1))

\* C6 as stated: _scale returns the nearest integer to the quotient.
C6_ScaleRounds ==
    (pc = "done" /\ RLt(sc_min, sc_max)) => sc_pixel = RRound(C6_Quotient)

\* C6 amended: _scale returns the quotient truncated toward zero, the
\* integer p with p <= quotient < p + 1.
C6_ScaleTruncates ==
    (pc = "done" /\ RLt(sc_min, sc_max)) =>
        /\ RLe(RInt(sc_pixel), C6_Quotient)
        /\ RLt(C6_Quotient, RInt(sc_pixel + 1))

\* C6 witness: a quotient whose fractional part exceeds one half, where
\* truncation and rounding differ.
C6_Witness ==
    /\ pc = "done"
    /\ RLt(sc_min, sc_max)
    /\ RLt(RInt(1), RMul(RInt(2), RSub(C6_Quotient, RInt(sc_pixel))))

\* The number of horizontal gridlines in a list of drawing calls: each dashed
\* line starts with one dash at the left chart edge.
HGridLines(fb) == Cardinality({i \in DOMAIN fb : fb[i].op = "hline" /\ fb[i].x = chart_left})
\* The number of vertical gridlines: each starts with one dash at the top.
VGridLines(fb) == Cardinality({i \in DOMAIN fb : fb[i].op = "vline" /\ fb[i].y = chart_top})

\* C7: for min < max, _draw_y_grid with step = _nice_step(max - min) draws
\* between 3 and 6 horizontal gridlines.
C7_GridLineCount ==
    (pc = "done" /\ yg_min < yg_max) =>
        (3 <= HGridLines(yg_fb) /\ HGridLines(yg_fb) <= 6)

\* What the code guarantees instead: between 2 and 7 gridlines.
C7_GridLineCountCode ==
    (pc = "done" /\ yg_min < yg_max) =>
        (2 <= HGridLines(yg_fb) /\ HGridLines(yg_fb) <= 7)

\* The sample count and the index step of the last draw_chart call.
C8_Points == Len(ch_history.data)
C8_Desired == IF ch_span_label = "365d" THEN 12 ELSE 6
C8_StepPoints == Max2(1, C8_Points \div C8_Desired)
\* The x positions of the vertical gridlines drawn, left to right.
C8_LineXs == {ch_fb[i].x : i \in {j \in DOMAIN ch_fb : ch_fb[j].op = "vline"}}

C9_EmptyRender ==
    (pc = "done" /\ ch_history.data = <<>>) =>
        /\ ~ch_raised
        /\ ch_calls = <<>>
        /\ ch_fb = << [op |-> "rect", x |-> 54, y |-> 33, w |-> 237, h |-> 66, c |-> 0],
                      [op |-> "text", s |-> <<"keine Daten">>, x |-> 59, y |-> 66, c |-> 0] >>

\* C9 witness: the placeholder drawn for an empty 365d buffer.
C9_Witness ==
    /\ pc = "done"
    /\ ch_history.data = <<>>
    /\ ch_span_label = "365d"
    /\ Len(ch_fb) = 2
    /\ ch_fb[2].op = "text"

\* C10 as stated: a price is fetched and appended only in iterations whose
\* price timer is due, and the view toggles only in iterations whose swap
\* timer is due.
C10_IndependentTimers ==
    pc = "loop" =>
        /\ iter.fetched => price_due
        /\ iter.appended => price_due
        /\ iter.toggled => swap_due

\* C10 amended: a price is fetched exactly in the iterations where the price
\* timer or the swap timer is due (line 482 tests `price_due or swap_due`),
\* and it is appended to both buffers when that fetch returns; the view
\* toggles only in iterations where the swap timer is due; a due swap timer
\* by itself causes a fetch and, unless the fetch raises, an append and the
\* toggle.
C10_CoupledTimers ==
    pc = "loop" =>
        /\ iter.fetched <=> (price_due \/ swap_due)
        /\ iter.appended <=> (iter.fetched /\ ~iter.raised)
        /\ iter.appended =>
            /\ history_24h.data[Len(history_24h.data)] = current_price
            /\ history_365d.data[Len(history_365d.data)] = current_price
        /\ iter.toggled => swap_due
        /\ (swap_due /\ ~iter.raised) => (iter.toggled /\ iter.appended)

\* C10 witness: an iteration in which only the swap timer was due fetched and
\* appended a price and toggled the view.
C10_Witness ==
    /\ pc = "loop"
    /\ swap_due /\ ~price_due
    /\ iter.fetched /\ iter.appended /\ iter.toggled
    /\ last_swap = now_ms

\* What C11 says of an iteration whose fetch raised (the step into the primed
\* state): both buffers, the view, both timers and the time stamp are as
\* before, and the error frame is flushed.
C11_RaiseKeeps ==
    iter'.raised =>
        /\ UNCHANGED <<history_24h, history_365d, is_long_view, last_swap,
                       last_price_ms, last_update>>
        /\ iter'.flushed = "error"
        /\ panel' = ErrorFrame

\* What C11 says of the first iteration whose fetch returns after one whose
\* fetch raised: the price is the last element of both buffers, and the frame
\* flushed to the panel is the chart drawn from the buffers that hold it.
C11_SuccessRenders ==
    (iter.raised /\ iter'.fetched /\ ~iter'.raised) =>
        /\ iter'.appended
        /\ history_24h'.data[Len(history_24h'.data)] = current_price'
        /\ history_365d'.data[Len(history_365d'.data)] = current_price'
        /\ iter'.flushed = "chart"
        /\ panel' = ChartFrame(current_price',
                               IF is_long_view' THEN history_365d' ELSE history_24h',
                               IF is_long_view' THEN "365d" ELSE "24h",
                               last_update')

\* C11 as stated: an iteration whose fetch raises changes none of the buffers,
\* the view, the timers and the time stamp and flushes the error frame; the
\* iteration after one whose fetch raised fetches again; and the first
\* iteration whose fetch then returns appends, redraws and flushes the chart.
C11_RaiseThenRetry ==
    [][pc = "loop" =>
        /\ C11_RaiseKeeps
        /\ iter.raised => iter'.fetched
        /\ C11_SuccessRenders]_vars

\* The part of C11 the code keeps: what a raising iteration leaves alone, and
\* what the first returning fetch after it does.
C11_RaiseAndRecover ==
    [][pc = "loop" => (C11_RaiseKeeps /\ C11_SuccessRenders)]_vars

\* The state C11 fails in: the fetch raised in the last iteration, the next
\* iteration starts now, and neither timer is found due because both are
\* half a ticks period old.
C11_RetryStops ==
    /\ pc = "loop" /\ iter.raised /\ InRun
    /\ ~FetchIsDue

\* C11_RetryStops is not reached.
C11_NoRetryStops == ~C11_RetryStops

====
